---- MODULE Spec2Model ----
(***************************************************************************)
(* Job pipelines of the chat-story video generators.                       *)
(*                                                                         *)
(* The repository holds four independent express programs:                 *)
(*   "bg"       the puppeteer server with background compositing and       *)
(*              frame decimation (src/unnamed/part_000),                   *)
(*   "plain"    the earlier puppeteer server (src/server.js),              *)
(*   "dialogue" the canvas application (src/unnamed/part_003 controller    *)
(*              with the VideoService of src/unnamed/part_001),            *)
(*   "canvas"   the same controller with the earlier VideoService          *)
(*              (src/video-generator-app/src/services/videoService.js).    *)
(* A behaviour runs one of them; `app` says which.  One step of the model  *)
(* is one turn of the node event loop: the synchronous code from the       *)
(* completion of an awaited call up to the next await.  Every awaited      *)
(* external call may resolve or throw.                                     *)
(***************************************************************************)
EXTENDS Integers, Sequences, FiniteSets, TLC

VARIABLES
  app,        \* which program is running
  jobs,       \* part_000:51 `jobs` Map: job id -> job record
  run,        \* job id -> locals of that job's generateVideo activation
  timers,     \* job ids whose 10 s cleanup timer is pending
  framesDirs, \* job ids whose transient frame directory exists on disk
  videoFiles, \* names of the files that exist in videosDir
  jobStatus,  \* part_003:7 `jobStatus` Map of the dialogue application
  svc,        \* job id -> locals of VideoService.generateVideo for that job
  tempDirs,   \* job ids whose temp/<jobId> directory exists on disk
  tempFiles,  \* videoService.js:16 tempDir: file name -> content, for the
              \* image files that exist in it
  now,        \* the value Date.now() returns
  calc,       \* a helper function being applied: arguments and result
  event       \* what the last turn handled: the job whose callback ran, or
              \* the HTTP request and the response sent to it

vars ==
  <<app, jobs, run, timers, framesDirs, videoFiles, jobStatus, svc, tempDirs,
    tempFiles, now, calc, event>>

\* what the puppeteer servers never touch, and what the dialogue one never does
imageVars == <<tempFiles, now>>
dialogueVars == <<jobStatus, svc, tempDirs, imageVars>>
puppeteerVars == <<jobs, run, timers, framesDirs, videoFiles>>

\* what no request handler and no continuation of a job changes
rest == <<app, calc>>

-----------------------------------------------------------------------------
(* Bounds of the model *)

MaxDuration == 2          \* durationSec ranges over 0..MaxDuration
MaxFps == 3               \* fps ranges over 1..MaxFps

MaxDialogues == 2         \* a dialogue job has 0..MaxDialogues dialogues

MaxClock == 1             \* Date.now() ranges over 0..MaxClock
LastFrame == 20           \* two concurrent image jobs are followed up to
                          \* their frame LastFrame

MaxText == 5              \* a wrapped text has 0..MaxText characters
MaxWidth == 3             \* maxWidth ranges over 1..MaxWidth

JobIds == {"V1StGXR8"}    \* the ids nanoid(8) hands out
DialogueJobIds == {"9b1deb4d"}   \* the ids uuidv4() hands out
ConcJobIds == JobIds \cup {"Uakgb_J5"}   \* the ids of two concurrent jobs
UnknownId == "nosuchid"   \* an id no job was ever given
Durations == 0..MaxDuration
FpsValues == 1..MaxFps
Percents == {0, 20, 50, 150}   \* p.percent values the encoder may report

-----------------------------------------------------------------------------
(* Values *)

Null == <<>>                       \* JavaScript null (paths are non-empty)

\* A string is modelled by its path segments; a non-string truthy value
\* (a number, an object) has isString = FALSE.
Str(segs) == [isString |-> TRUE, segs |-> segs]
NonString == [isString |-> FALSE, segs |-> <<"7">>]

BackgroundUrls ==
  { Str(<<>>),                               \* '' (the default)
    Str(<<"backgrounds", "lib.mp4">>),       \* '/backgrounds/lib.mp4'
    Str(<<"https:", "host", "clip">>),       \* an external URL
    NonString }

dirname == <<"app">>
dataDir == dirname \o <<"data">>
videosDir == dataDir \o <<"videos">>
framesDir == dataDir \o <<"frames">>
bgDir == dataDir \o <<"backgrounds">>

Min(a, b) == IF a <= b THEN a ELSE b

\* Math.round(n / d) for integers n and d > 0: round half up.
Round(n, d) == (2 * n + d) \div (2 * d)

\* job.message values
Msg(text) == [text |-> text, k |-> 0, n |-> 0, err |-> "none"]
CapturedMsg(k, n) == [text |-> "Captured frame", k |-> k, n |-> n, err |-> "none"]
\* String(err?.stack || err): the stack of the error thrown by call `e`
StackMsg(e) == [text |-> "stack", k |-> 0, n |-> 0, err |-> e]

-----------------------------------------------------------------------------
(* Program constants *)

HasBackground == app = "bg"

frameStep == IF app = "bg" THEN 2 ELSE 1

\* the frame count rounded up instead of down
totalFramesCeiling(durationSec, fps) ==
  (durationSec * fps + frameStep - 1) \div frameStep

\* part_000:177, Math.floor((durationSec * fps) / frameStep)
totalFrames(durationSec, fps) == (durationSec * fps) \div frameStep

-----------------------------------------------------------------------------
(* The job record (part_000:140) and the writes generateVideo makes to it *)

NewJob(id) ==
  [id |-> id, status |-> "queued", progress |-> 0,
   message |-> Msg("Queued"), outputFile |-> Null]

\* generateVideo leaving the status for a later turn to set
RenderingDeferred(job) == job

\* part_000:173-174
Rendering(job) ==
  [job EXCEPT !.status = "rendering",
              !.message = Msg("Launching headless browser")]

\* the capture phase scaled to the whole progress range
CapturedOfHundred(job, i, n) ==
  [job EXCEPT !.progress = Round((i + 1) * 100, n),
              !.message = CapturedMsg(i + 1, n)]

\* part_000:208-209, after frame i of n has been written
Captured(job, i, n) ==
  [job EXCEPT !.progress = Round((i + 1) * 80, n),
              !.message = CapturedMsg(i + 1, n)]

\* part_000:212-213
Encoding(job) ==
  [job EXCEPT !.message = Msg("Encoding video"), !.progress = 85]

\* OnProgress without the Math.min(10, ...) clamp
OnProgressUnclamped(job, percent) ==
  IF percent # 0
    THEN [job EXCEPT !.progress = 85 + Round(percent, 10)]
    ELSE job

\* part_000:237-239, the encoder's 'progress' listener
OnProgress(job, percent) ==
  IF percent # 0
    THEN [job EXCEPT !.progress = 85 + Min(10, Round(percent, 10))]
    ELSE job

\* Completed with the outputFile assignment left for after the finally block
CompletedWithoutOutput(job, outFile) ==
  [job EXCEPT !.progress = 100, !.status = "done",
              !.message = Msg("Completed")]

\* part_000:245-248
Completed(job, outFile) ==
  [job EXCEPT !.progress = 100, !.status = "done",
              !.message = Msg("Completed"), !.outputFile = outFile]

\* the fire-and-forget call without its .catch: the rejection is dropped
OnRejectedUnhandled(job, err) == job

\* part_000:145-148, the .catch of the fire-and-forget call
OnRejected(job, err) ==
  [job EXCEPT !.status = "error", !.message = StackMsg(err)]

\* GET /api/progress/:jobId (part_000:95-105): status code and body
Progress(jobId) ==
  IF jobId \notin DOMAIN jobs
    THEN [code |-> 404, status |-> "", progress |-> 0, outputUrl |-> Null]
    ELSE [code |-> 200,
          status |-> jobs[jobId].status,
          progress |-> jobs[jobId].progress,
          outputUrl |-> IF jobs[jobId].outputFile # Null
                          THEN <<"videos", jobs[jobId].outputFile[Len(jobs[jobId].outputFile)]>>
                          ELSE Null]

\* `${jobId}.mp4` (part_000:109, 136)
FileName(id) == id \o ".mp4"

\* f.endsWith('.mp4') (part_000:78)
IsMp4(f) == \E id \in ConcJobIds \cup {UnknownId} : FileName(id) = f

\* path.parse(f).name (part_000:83)
ParsedName(f) == CHOOSE id \in ConcJobIds \cup {UnknownId} : FileName(id) = f

\* GET /api/videos (part_000:75-93): the `files` of the answer
Videos ==
  { [id |-> ParsedName(f), filename |-> f, url |-> <<"videos", f>>,
     download |-> <<"api", "download", ParsedName(f)>>] :
      f \in {g \in videoFiles : IsMp4(g)} }

\* GET /api/download/:id (part_000:107-112): status code and file sent
Download(id) ==
  IF FileName(id) \in videoFiles
    THEN [code |-> 200, file |-> videosDir \o <<FileName(id)>>]
    ELSE [code |-> 404, file |-> Null]

-----------------------------------------------------------------------------
(* Background resolver (part_000:153-170) *)

Resolved(v) == [state |-> "resolved", value |-> v, err |-> "none"]
Rejected(e) == [state |-> "rejected", value |-> Null, err |-> e]
Pending(s) == [state |-> s, value |-> Null, err |-> "none"]
NotStarted == Pending("idle")

Settled(p) == p.state \in {"resolved", "rejected"}

\* where the asset served as '/backgrounds/<file>' is stored: the static
\* mount of part_000:34 and the listing of part_000:57-60 read bgDir
StoredAsset(file) == bgDir \o <<file>>

\* ensureBackgroundVideo up to its first await
ensureBackgroundVideo(backgroundUrl) ==
  IF backgroundUrl.isString /\ backgroundUrl.segs = <<>>
    THEN Resolved(Null)
  ELSE IF ~backgroundUrl.isString
    THEN Rejected("TypeError")              \* startsWith is not a function
  ELSE IF backgroundUrl.segs[1] = "backgrounds"
    THEN Resolved(dirname \o backgroundUrl.segs)
  ELSE Pending("ytdlp")

\* the resolver's promise without .catch(()=>null)
bgPromiseUncaught(p) == p

\* part_000:189, .catch(()=>null) on the resolver's promise
\* (err keeps the swallowed cause, which the program drops)
bgPromise(p) ==
  IF p.state = "rejected"
    THEN [state |-> "resolved", value |-> Null, err |-> p.err]
    ELSE p

-----------------------------------------------------------------------------
(* What a turn handles *)

\* no helper function is being applied
Idle == [op |-> "none"]

NoRequest == [route |-> "none", arg |-> Null]
NoResponse == [code |-> 0]

\* the turn ran a callback of job j's pipeline
Callback(j) == event' = [job |-> j, req |-> NoRequest, res |-> NoResponse]

\* the turn ran the handler of `route` with parameter or body `arg`, which
\* answered `res`; job is the job the handler started, if any
Handled(job, route, arg, res) ==
  event' = [job |-> job, req |-> [route |-> route, arg |-> arg], res |-> res]

-----------------------------------------------------------------------------
(* POST /api/generate (part_000:120-151) with generateVideo up to its      *)
(* first await (part_000:172-178)                                          *)

\* part_000:201, timeSec = (i * frameStep) / fps as a fraction
timeSec(i, fps) == [num |-> i * frameStep, den |-> fps]

Locals(jobId, durationSec, fps, backgroundUrl) ==
  [pc |-> "launch",
   durationSec |-> durationSec, fps |-> fps, backgroundUrl |-> backgroundUrl,
   outFile |-> videosDir \o <<FileName(jobId)>>,
   framesPath |-> framesDir \o <<jobId>>,
   n |-> totalFrames(durationSec, fps),
   i |-> 0,
   samples |-> <<>>,
   browser |-> "none",
   bg |-> NotStarted,
   bgVideo |-> Null,
   thrown |-> "none",
   encoder |-> "idle",
   framerate |-> 0,
   encBg |-> Null]

PostGenerate(jobId, durationSec, fps, backgroundUrl) ==
  /\ app \in {"bg", "plain"}
  /\ jobId \notin DOMAIN jobs
  /\ framesDirs' = framesDirs \cup {jobId}
  /\ jobs' = jobs @@ (jobId :> Rendering(NewJob(jobId)))
  /\ run' = run @@ (jobId :> Locals(jobId, durationSec, fps, backgroundUrl))
  /\ Handled(jobId, "POST /api/generate",
             [durationSec |-> durationSec, fps |-> fps,
              backgroundUrl |-> backgroundUrl],
             [code |-> 200, jobId |-> jobId])
  /\ UNCHANGED <<rest, dialogueVars, timers, videoFiles>>

\* GET /api/progress/:jobId (part_000:95-105)
GetProgress(jobId) ==
  /\ app \in {"bg", "plain"}
  /\ Handled("none", "GET /api/progress/:jobId", jobId, Progress(jobId))
  /\ UNCHANGED <<rest, dialogueVars, puppeteerVars>>

\* GET /api/videos (part_000:75-93)
GetVideos ==
  /\ app \in {"bg", "plain"}
  /\ Handled("none", "GET /api/videos", Null, [code |-> 200, files |-> Videos])
  /\ UNCHANGED <<rest, dialogueVars, puppeteerVars>>

\* GET /api/download/:id (part_000:107-112)
GetDownload(id) ==
  /\ app \in {"bg", "plain"}
  /\ Handled("none", "GET /api/download/:id", id, Download(id))
  /\ UNCHANGED <<rest, dialogueVars, puppeteerVars>>

Running(j, pc) == j \in DOMAIN run /\ run[j].pc = pc

\* the .catch handler run on every record of the registry
RejectEveryJob(j, r, err) ==
  /\ jobs' = [k \in DOMAIN jobs |-> OnRejected(jobs[k], err)]
  /\ run' = [run EXCEPT ![j] = [r EXCEPT !.pc = "finished"]]

\* generateVideo's promise rejects with err: the .catch handler runs
Reject(j, r, err) ==
  /\ jobs' = [jobs EXCEPT ![j] = OnRejected(jobs[j], err)]
  /\ run' = [run EXCEPT ![j] = [r EXCEPT !.pc = "finished"]]

\* an exception leaves the try block: `finally` calls browser.close()
Throw(j, err) ==
  /\ run' = [run EXCEPT ![j].pc = "closing", ![j].thrown = err]
  /\ Callback(j)
  /\ UNCHANGED <<rest, dialogueVars, jobs, timers, framesDirs, videoFiles>>

\* a step that only moves on to the next await
Goes(j, pc) ==
  /\ run' = [run EXCEPT ![j].pc = pc]
  /\ Callback(j)
  /\ UNCHANGED <<rest, dialogueVars, jobs, timers, framesDirs, videoFiles>>

\* the loop left one frame early
LoopHeadEarly(j, r, job) ==
  IF r.i + 1 < r.n
    THEN /\ run' = [run EXCEPT ![j] = [r EXCEPT !.pc = "setTimelineTime"]]
         /\ jobs' = [jobs EXCEPT ![j] = job]
    ELSE /\ run' = [run EXCEPT ![j] = [r EXCEPT !.pc = "encoding",
                                                !.encoder = "running",
                                                !.framerate =
                                                  Round(r.fps, frameStep),
                                                !.encBg = r.bgVideo]]
         /\ jobs' = [jobs EXCEPT ![j] = Encoding(job)]

\* the `for` test (part_000:200) with locals r and job record job; when the
\* loop is over, part_000:212-243 start the encoder with the input option
\* -framerate Math.round(fps / frameStep) and the resolved background
LoopHead(j, r, job) ==
  IF r.i < r.n
    THEN /\ run' = [run EXCEPT ![j] = [r EXCEPT !.pc = "setTimelineTime"]]
         /\ jobs' = [jobs EXCEPT ![j] = job]
    ELSE /\ run' = [run EXCEPT ![j] = [r EXCEPT !.pc = "encoding",
                                                !.encoder = "running",
                                                !.framerate =
                                                  Round(r.fps, frameStep),
                                                !.encBg = r.bgVideo]]
         /\ jobs' = [jobs EXCEPT ![j] = Encoding(job)]

\* part_000:178-182
Launch(j, ok) ==
  /\ Running(j, "launch")
  /\ IF ok
       THEN /\ run' = [run EXCEPT ![j].pc = "newPage", ![j].browser = "open"]
            /\ UNCHANGED jobs
       ELSE Reject(j, run[j], "launch")
  /\ Callback(j)
  /\ UNCHANGED <<rest, dialogueVars, timers, framesDirs, videoFiles>>

\* part_000:186
NewPage(j, ok) ==
  /\ Running(j, "newPage")
  /\ IF ok THEN Goes(j, "goto") ELSE Throw(j, "newPage")

\* part_000:187-193: the page has loaded; the resolver is started and the
\* render data is sent to the page
Goto(j, ok) ==
  /\ Running(j, "goto")
  /\ IF ~ok THEN Throw(j, "goto")
     ELSE /\ run' = [run EXCEPT
                 ![j].pc = "setData",
                 ![j].bg = IF HasBackground
                             THEN bgPromise(ensureBackgroundVideo(run[j].backgroundUrl))
                             ELSE @]
          /\ Callback(j)
          /\ UNCHANGED <<rest, dialogueVars, jobs, timers, framesDirs, videoFiles>>

\* part_000:191-193
SetData(j, ok) ==
  /\ Running(j, "setData")
  /\ IF ok THEN Goes(j, "startRender") ELSE Throw(j, "evaluate")

\* part_000:195-196
StartRender(j, ok) ==
  /\ Running(j, "startRender")
  /\ IF ok THEN Goes(j, "delay") ELSE Throw(j, "startRender")

\* part_000:196-198: the 300 ms timer fires (server.js:150-152 goes straight
\* to the loop)
Delay(j) ==
  /\ Running(j, "delay")
  /\ IF HasBackground
       THEN Goes(j, "awaitBg")
       ELSE /\ LoopHead(j, run[j], jobs[j])
            /\ Callback(j)
            /\ UNCHANGED <<rest, dialogueVars, timers, framesDirs, videoFiles>>

\* bgPromise read without await: the loop goes on at once
BgNotAwaited(p) == TRUE

\* whether `await bgPromise` (part_000:198) can resume
BgAwaited(p) == Settled(p)

\* part_000:198-204
AwaitBg(j) ==
  /\ Running(j, "awaitBg")
  /\ BgAwaited(run[j].bg)
  /\ IF run[j].bg.state = "rejected"
       THEN Throw(j, run[j].bg.err)
       ELSE /\ LoopHead(j, [run[j] EXCEPT !.bgVideo = run[j].bg.value], jobs[j])
            /\ Callback(j)
            /\ UNCHANGED <<rest, dialogueVars, timers, framesDirs, videoFiles>>

\* part_000:158-168: the download returns; the transcode is started
Ytdlp(j, ok) ==
  /\ j \in DOMAIN run
  /\ run[j].bg.state = "ytdlp"
  /\ run' = [run EXCEPT ![j].bg =
               IF ok THEN Pending("scale") ELSE bgPromise(Rejected("ytdlp"))]
  /\ Callback(j)
  /\ UNCHANGED <<rest, dialogueVars, jobs, timers, framesDirs, videoFiles>>

\* part_000:161-169: the transcode ends or fails
Scale(j, ok) ==
  /\ j \in DOMAIN run
  /\ run[j].bg.state = "scale"
  /\ run' = [run EXCEPT ![j].bg =
               IF ok THEN Resolved(bgDir \o <<"scaled">>)
                     ELSE bgPromise(Rejected("scale"))]
  /\ Callback(j)
  /\ UNCHANGED <<rest, dialogueVars, jobs, timers, framesDirs, videoFiles>>

\* part_000:202-206
SetTimelineTime(j, ok) ==
  /\ Running(j, "setTimelineTime")
  /\ IF ok THEN Goes(j, "screenshot") ELSE Throw(j, "setTimelineTime")

\* part_000:201-210 and the next turn of the loop: the frame of time timeSec
\* is on disk
Screenshot(j, ok) ==
  /\ Running(j, "screenshot")
  /\ IF ~ok THEN Throw(j, "screenshot")
     ELSE /\ LoopHead(j, [run[j] EXCEPT
                            !.i = @ + 1,
                            !.samples = Append(@, timeSec(run[j].i, run[j].fps))],
                      Captured(jobs[j], run[j].i, run[j].n))
          /\ Callback(j)
          /\ UNCHANGED <<rest, dialogueVars, timers, framesDirs, videoFiles>>

\* part_000:237-239
EncoderProgress(j, percent) ==
  /\ Running(j, "encoding")
  /\ jobs' = [jobs EXCEPT ![j] = OnProgress(jobs[j], percent)]
  /\ Callback(j)
  /\ UNCHANGED <<rest, dialogueVars, run, timers, framesDirs, videoFiles>>

\* part_000:243, .save(outFile): the encoder process creates its output
\* file in videosDir while it runs
EncoderWrites(j) ==
  /\ Running(j, "encoding")
  /\ FileName(j) \notin videoFiles
  /\ videoFiles' = videoFiles \cup {FileName(j)}
  /\ event' = [job |-> "none", req |-> NoRequest, res |-> NoResponse]
  /\ UNCHANGED <<rest, dialogueVars, jobs, run, timers, framesDirs>>

\* part_000:241-250: 'end' resolves; the job is marked done; finally
EncoderEnd(j) ==
  /\ Running(j, "encoding")
  /\ jobs' = [jobs EXCEPT ![j] = Completed(jobs[j], run[j].outFile)]
  /\ run' = [run EXCEPT ![j].pc = "closing", ![j].encoder = "ended"]
  /\ videoFiles' = videoFiles \cup {FileName(j)}
  /\ Callback(j)
  /\ UNCHANGED <<rest, dialogueVars, timers, framesDirs>>

\* part_000:240, 249-250: 'error' rejects; finally
EncoderError(j) ==
  /\ Running(j, "encoding")
  /\ run' = [run EXCEPT ![j].pc = "closing", ![j].encoder = "failed",
                        ![j].thrown = "ffmpeg"]
  /\ Callback(j)
  /\ UNCHANGED <<rest, dialogueVars, jobs, timers, framesDirs, videoFiles>>

\* part_000:250-257 and 145-148: browser.close() returns or throws
BrowserClose(j, ok) ==
  /\ Running(j, "closing")
  /\ IF ok
       THEN /\ timers' = timers \cup {j}
            /\ IF run[j].thrown # "none"
                 THEN Reject(j, [run[j] EXCEPT !.browser = "closed"], run[j].thrown)
                 ELSE /\ run' = [run EXCEPT ![j].pc = "finished",
                                            ![j].browser = "closed"]
                      /\ UNCHANGED jobs
       ELSE /\ Reject(j, run[j], "close")
            /\ UNCHANGED timers
  /\ Callback(j)
  /\ UNCHANGED <<rest, dialogueVars, framesDirs, videoFiles>>

\* part_000:251-255: the cleanup timer fires
CleanupTimer(j) ==
  /\ j \in timers
  /\ timers' = timers \ {j}
  /\ framesDirs' = framesDirs \ {j}
  /\ Callback(j)
  /\ UNCHANGED <<rest, dialogueVars, jobs, run, videoFiles>>

-----------------------------------------------------------------------------
(* The dialogue applications: exports.generateVideo (part_003:9-53) with   *)
(* VideoService.generateVideo of part_001:42-87 ("dialogue") or of         *)
(* videoService.js:19-56 ("canvas")                                        *)

frameRate == 30

\* req.body.dialogues: absent, a non-array value, or an array of dialogues
NoDialogues == [kind |-> "undefined", items |-> <<>>]
BadDialogues == [kind |-> "string", items |-> <<>>]
Dialogues(items) == [kind |-> "array", items |-> items]
Dialogue(k) ==
  [speaker |-> IF k % 2 = 1 THEN "Ava" ELSE "You",
   message |-> <<"line", ToString(k)>>]

\* a dialogue with an image and a caption and no `message` property
Media(k) ==
  [speaker |-> IF k % 2 = 1 THEN "Ava" ELSE "You",
   image |-> <<"http:", "host", "pic.jpg">>,
   caption |-> <<"caption", ToString(k)>>]

\* image URLs
ImageUrls == {<<"http:", "host", "cat.jpg">>, <<"http:", "host", "dog.jpg">>}

\* a dialogue with a text and the image of imageUrl
Pictured(k, imageUrl) == [image |-> imageUrl] @@ Dialogue(k)

\* JavaScript undefined, as the value of an array element that is not there
\* or of a property an object does not have
Undefined == [undefined |-> TRUE]

\* object.name
Field(object, name) ==
  IF name \in DOMAIN object THEN object[name] ELSE Undefined

DialogueInputs ==
  {NoDialogues, BadDialogues} \cup
  UNION {{Dialogues([k \in 1..n |->
                        IF t[k] = "text" THEN Dialogue(k) ELSE Media(k)])
            : t \in [1..n -> {"text", "media"}]} : n \in 0..MaxDialogues}

\* the validation test without Array.isArray
InvalidWhenMissing(dialogues) == dialogues.kind = "undefined"

\* part_003:14, the validation test
Invalid(dialogues) == dialogues.kind # "array"

\* part_001:97 (framesPerDialogue of videoService.js:63)
framesPerMessage == frameRate * 2

\* the frames after the last message's: part_001:98, videoService.js:87
finalFrames == IF app = "canvas" THEN frameRate ELSE frameRate * 2

\* the frame count without the final frames
serviceTotalFramesWithoutFinal(dialogues) ==
  Len(dialogues) * framesPerMessage

\* part_001:98 (the two loops of videoService.js:65-102)
serviceTotalFrames(dialogues) ==
  Len(dialogues) * framesPerMessage + finalFrames

\* dialogues[k] for a 0-based k
ItemAt(dialogues, k) ==
  IF k \in 0..(Len(dialogues) - 1) THEN dialogues[k + 1] ELSE Undefined

\* dialogues.slice(0, end)
slice(dialogues, end) == SubSeq(dialogues, 1, Min(end, Len(dialogues)))

-----------------------------------------------------------------------------
(* animationProgress (part_001:119, 131).  The value is an IEEE-754 double *)
(* reached from 0 by adding 0.1: Float(t, u) is the double u units in the  *)
(* last place away from the double nearest to t/10.                        *)

Float(tenths, ulps) == [tenths |-> tenths, ulps |-> ulps]
Zero == Float(0, 0)
One == Float(10, 0)

Less(a, b) ==
  a.tenths < b.tenths \/ (a.tenths = b.tenths /\ a.ulps < b.ulps)

\* a + 0.1: 0.2 + 0.1 is 0.30000000000000004, 0.7 + 0.1 is
\* 0.7999999999999999, and the sums stay one unit low up to
\* 1.0999999999999999
AddTenth(a) ==
  IF a = Float(2, 0) THEN Float(3, 1)
  ELSE IF a.tenths \in 7..10 /\ a # One THEN Float(a.tenths + 1, -1)
  ELSE Float(a.tenths + 1, 0)

MathMin(a, b) == IF Less(b, a) THEN b ELSE a

\* msg.animationProgress + 0.1 without Math.min
AnimateUnclamped(a) == AddTenth(a)

\* part_001:131
Animate(a) == MathMin(One, AddTenth(a))

-----------------------------------------------------------------------------
(* generateFrames: the state of each frame *)

\* part_001:117-121, { ...dialogue, animationProgress: 0, index }
Shown(dialogue, index) ==
  [animationProgress |-> Zero, index |-> index] @@ dialogue

\* part_001:116-123 with the new message taking the place of the list
AddMessageReplacing(s, f) ==
  IF f > 0 /\ f % framesPerMessage = 0 /\ s.currentMessageIndex < Len(s.dialogues)
    THEN [s EXCEPT
            !.visibleMessages =
               <<Shown(ItemAt(s.dialogues, s.currentMessageIndex),
                       s.currentMessageIndex)>>,
            !.currentMessageIndex = @ + 1]
    ELSE s

\* part_001:116-123
AddMessage(s, f) ==
  IF f > 0 /\ f % framesPerMessage = 0 /\ s.currentMessageIndex < Len(s.dialogues)
    THEN [s EXCEPT
            !.visibleMessages =
               Append(@, Shown(ItemAt(s.dialogues, s.currentMessageIndex),
                               s.currentMessageIndex)),
            !.currentMessageIndex = @ + 1]
    ELSE s

\* part_001:109-158, the state handed to createFrame for frame s.f
RenderState(s) ==
  LET a == AddMessage(s, s.f)
  IN [a EXCEPT !.visibleMessages =
        [k \in DOMAIN a.visibleMessages |->
           [a.visibleMessages[k] EXCEPT !.animationProgress = Animate(@)]]]

\* videoService.js:65-96, the arguments of createFrame for frame s.f
ChatFrame(s) ==
  IF s.f < Len(s.dialogues) * framesPerMessage
    THEN [s EXCEPT
            !.currentDialogue = ItemAt(s.dialogues, s.f \div framesPerMessage),
            !.allDialogues = slice(s.dialogues, s.f \div framesPerMessage + 1),
            !.progress = [num |-> s.f % framesPerMessage,
                          den |-> framesPerMessage]]
    ELSE [s EXCEPT
            !.currentDialogue = ItemAt(s.dialogues, Len(s.dialogues) - 1),
            !.allDialogues = s.dialogues,
            !.progress = [num |-> 1, den |-> 1]]

\* videoService.js:234, with progress > 0.1 on the fraction
isVisible(i, dialogues, progress) ==
  i < Len(dialogues) - 1 \/ progress.num * 10 > progress.den

\* the 0-based indices of the messages a frame shows
VisibleSet(s) ==
  IF app = "canvas"
    THEN {i \in 0..(Len(s.allDialogues) - 1) :
            isVisible(i, s.allDialogues, s.progress)}
    ELSE {s.visibleMessages[k].index : k \in DOMAIN s.visibleMessages}

\* the messages whose bubble a frame draws: the last 8 of visibleMessages
\* (part_001:377-381), the visible ones of allDialogues (videoService.js:232)
Drawn(s) ==
  IF app = "canvas"
    THEN {s.allDialogues[i + 1] : i \in VisibleSet(s)}
    ELSE {s.visibleMessages[k] :
            k \in {k \in DOMAIN s.visibleMessages :
                     k > Len(s.visibleMessages) - 8}}

\* wrapText's text.split(' ') (part_001:571, videoService.js:334) applied to
\* message.message (part_001:398, videoService.js:250) throws a TypeError
\* when the property is undefined
SplitThrows(message) == Field(message, "message") = Undefined

\* the frame in which each message was shown first
Onsets(s, onsets) ==
  [i \in VisibleSet(s) |-> IF i \in DOMAIN onsets THEN onsets[i] ELSE s.f]

\* the loop test of part_001:109 (videoService.js:65-88) and, when the
\* loop is over, createVideoFromFrames (part_001:71, 612-642)
FrameHead(s) ==
  IF s.f < s.totalFrames
    THEN LET t == IF app = "canvas" THEN ChatFrame(s) ELSE RenderState(s)
         IN [t EXCEPT !.pc = "createFrame", !.onsets = Onsets(t, s.onsets)]
    ELSE [s EXCEPT !.pc = "ffmpeg"]

-----------------------------------------------------------------------------
(* The job of the dialogue applications *)

Processing == [status |-> "processing", progress |-> 0]

\* part_003:27-33 with part_001:78-81
CompletedStatus(jobId) ==
  [status |-> "completed", progress |-> 100,
   filename |-> <<"video", jobId>>, url |-> <<"videos", "video", jobId>>]

\* part_003:35-40
FailedStatus(err) == [status |-> "failed", error |-> err]

\* the locals of VideoService.generateVideo and generateFrames
ServiceLocals(dialogues) ==
  [pc |-> "mkdir", dialogues |-> dialogues, totalFrames |-> 0, f |-> 0,
   currentMessageIndex |-> 0, visibleMessages |-> <<>>,
   currentDialogue |-> Undefined, allDialogues |-> <<>>,
   progress |-> [num |-> 0, den |-> 1],
   onsets |-> <<>>,
   imagePath |-> Null, resizedPath |-> Null, image |-> Null]

\* part_003:9-47 with part_001:42-54: a valid body starts a job, which runs
\* up to `await fs.mkdir`; an invalid one is answered 400
PostDialogue(jobId, dialogues) ==
  /\ app \in {"dialogue", "canvas"}
  /\ IF Invalid(dialogues)
       THEN /\ Handled("none", "POST /api/videos/generate", dialogues,
                       [code |-> 400, error |-> "Invalid JSON structure"])
            /\ UNCHANGED <<jobStatus, svc>>
       ELSE /\ jobId \notin DOMAIN jobStatus
            /\ jobStatus' = jobStatus @@ (jobId :> Processing)
            /\ svc' = svc @@ (jobId :> ServiceLocals(dialogues.items))
            /\ Handled(jobId, "POST /api/videos/generate", dialogues,
                       [code |-> 200, jobId |-> jobId])
  /\ UNCHANGED <<rest, puppeteerVars, imageVars, tempDirs>>

At(j, pc) == j \in DOMAIN svc /\ svc[j].pc = pc

\* part_001:83-86 and part_003:35-40: the exception is logged and rethrown;
\* the controller's .catch records the failure
ServiceThrow(j, err) ==
  /\ svc' = [svc EXCEPT ![j].pc = "rejected"]
  /\ jobStatus' = [jobStatus EXCEPT ![j] = FailedStatus(err)]

\* part_001:54-59, 89-143: the directory is made and generateFrames runs up
\* to the first createFrame
Mkdir(j, ok) ==
  /\ At(j, "mkdir")
  /\ IF ok
       THEN /\ tempDirs' = tempDirs \cup {j}
            /\ svc' = [svc EXCEPT ![j] =
                  FrameHead([svc[j] EXCEPT
                     !.totalFrames = serviceTotalFrames(svc[j].dialogues)])]
            /\ UNCHANGED jobStatus
       ELSE /\ ServiceThrow(j, "mkdir")
            /\ UNCHANGED tempDirs
  /\ Callback(j)
  /\ UNCHANGED <<rest, puppeteerVars, imageVars>>

\* videoService.js:118, currentDialogue.image && progress > 0.3
DrawsImage(s) ==
  /\ Field(s.currentDialogue, "image") # Undefined
  /\ s.progress.num * 10 > 3 * s.progress.den

\* videoService.js:287, 296: `temp_image_${Date.now()}.jpg` and
\* `resized_${Date.now()}.jpg` in this.tempDir
TempImage(t) == [name |-> "temp_image", stamp |-> t]
Resized(t) == [name |-> "resized", stamp |-> t]

\* part_001:143-161, 169-199; the chat panel is drawn first, wrapping the
\* text of every message it shows; in videoService.js:107-123 the test of
\* currentDialogue.image then throws when there is no current dialogue
CreateFrame(j, ok) ==
  /\ At(j, "createFrame")
  /\ IF ~ok
       THEN ServiceThrow(j, "createFrame")
     ELSE IF \E message \in Drawn(svc[j]) : SplitThrows(message)
       THEN ServiceThrow(j, "TypeError")
     ELSE IF app = "canvas" /\ svc[j].currentDialogue = Undefined
       THEN ServiceThrow(j, "TypeError")
     ELSE IF app = "canvas" /\ DrawsImage(svc[j])
       THEN /\ svc' = [svc EXCEPT ![j].pc = "axios",
                                  ![j].imagePath = TempImage(now),
                                  ![j].image = Null]
            /\ UNCHANGED jobStatus
     ELSE /\ svc' = [svc EXCEPT ![j].pc = "writeFile", ![j].image = Null]
          /\ UNCHANGED jobStatus
  /\ Callback(j)
  /\ UNCHANGED <<rest, puppeteerVars, imageVars, tempDirs>>

\* part_001:161-166 and 67-71: the frame is on disk; next frame, or the
\* encoder is started
WriteFile(j, ok) ==
  /\ At(j, "writeFile")
  /\ IF ok
       THEN /\ svc' = [svc EXCEPT ![j] = FrameHead([svc[j] EXCEPT !.f = @ + 1])]
            /\ UNCHANGED jobStatus
       ELSE ServiceThrow(j, "writeFile")
  /\ Callback(j)
  /\ UNCHANGED <<rest, puppeteerVars, imageVars, tempDirs>>

\* part_001:612-642 and 71-74: 'end' resolves and cleanupTempFiles starts
ServiceEncoderEnd(j) ==
  /\ At(j, "ffmpeg")
  /\ svc' = [svc EXCEPT ![j].pc = "readdir"]
  /\ Callback(j)
  /\ UNCHANGED <<rest, puppeteerVars, imageVars, jobStatus, tempDirs>>

\* part_001:636-639: 'error' rejects
ServiceEncoderError(j) ==
  /\ At(j, "ffmpeg")
  /\ ServiceThrow(j, "ffmpeg")
  /\ Callback(j)
  /\ UNCHANGED <<rest, puppeteerVars, imageVars, tempDirs>>

\* part_001:74-81 with part_003:27-33: cleanupTempFiles has returned
ServiceReturn(j) ==
  /\ svc' = [svc EXCEPT ![j].pc = "resolved"]
  /\ jobStatus' = [jobStatus EXCEPT ![j] = CompletedStatus(j)]

\* part_001:644-654: readdir, unlink of every file, rmdir; an exception in
\* any of them is logged and swallowed
CleanupStep(j, ok) ==
  /\ j \in DOMAIN svc
  /\ svc[j].pc \in {"readdir", "unlink", "rmdir"}
  /\ IF ~ok
       THEN ServiceReturn(j) /\ UNCHANGED tempDirs
     ELSE IF svc[j].pc = "readdir"
       THEN /\ svc' = [svc EXCEPT ![j].pc = "unlink"]
            /\ UNCHANGED <<jobStatus, tempDirs>>
     ELSE IF svc[j].pc = "unlink"
       THEN /\ svc' = [svc EXCEPT ![j].pc = "rmdir"]
            /\ UNCHANGED <<jobStatus, tempDirs>>
     ELSE /\ ServiceReturn(j)
          /\ tempDirs' = tempDirs \ {j}
  /\ Callback(j)
  /\ UNCHANGED <<rest, puppeteerVars, imageVars>>

-----------------------------------------------------------------------------
(* drawDialogueImage (videoService.js:284-331): the image is downloaded    *)
(* into tempDir, resized into a second file, loaded, drawn and both files  *)
(* are deleted.  Any exception ends the drawing (videoService.js:328-330)  *)
(* and createFrame returns the frame as it is.                             *)

\* the catch block: createFrame goes on to canvas.toBuffer
ImageCaught(j) ==
  /\ svc' = [svc EXCEPT ![j].pc = "writeFile"]
  /\ UNCHANGED tempFiles

\* videoService.js:290-292: axios.get has returned; the download is written
AxiosGet(j, ok) ==
  /\ At(j, "axios")
  /\ IF ok
       THEN /\ svc' = [svc EXCEPT ![j].pc = "writeImage"]
            /\ UNCHANGED tempFiles
       ELSE ImageCaught(j)
  /\ Callback(j)
  /\ UNCHANGED <<rest, puppeteerVars, jobStatus, tempDirs, now>>

\* videoService.js:292-300: the download is in imagePath; sharp is started
WriteImage(j, ok) ==
  /\ At(j, "writeImage")
  /\ IF ok
       THEN /\ tempFiles' =
                 [path \in DOMAIN tempFiles \cup {svc[j].imagePath} |->
                    IF path = svc[j].imagePath
                      THEN svc[j].currentDialogue.image
                      ELSE tempFiles[path]]
            /\ svc' = [svc EXCEPT ![j].pc = "sharp",
                                  ![j].resizedPath = Resized(now)]
       ELSE ImageCaught(j)
  /\ Callback(j)
  /\ UNCHANGED <<rest, puppeteerVars, jobStatus, tempDirs, now>>

\* videoService.js:297-303: sharp has read imagePath and written
\* resizedPath; loadImage is started
Sharp(j, ok) ==
  /\ At(j, "sharp")
  /\ IF ok /\ svc[j].imagePath \in DOMAIN tempFiles
       THEN /\ tempFiles' =
                 [path \in DOMAIN tempFiles \cup {svc[j].resizedPath} |->
                    IF path = svc[j].resizedPath
                      THEN tempFiles[svc[j].imagePath]
                      ELSE tempFiles[path]]
            /\ svc' = [svc EXCEPT ![j].pc = "loadImage"]
       ELSE ImageCaught(j)
  /\ Callback(j)
  /\ UNCHANGED <<rest, puppeteerVars, jobStatus, tempDirs, now>>

\* videoService.js:303-324: loadImage has read resizedPath; the image is
\* drawn and the first unlink is started
LoadImage(j, ok) ==
  /\ At(j, "loadImage")
  /\ IF ok /\ svc[j].resizedPath \in DOMAIN tempFiles
       THEN /\ svc' = [svc EXCEPT ![j].pc = "unlinkImage",
                                  ![j].image = tempFiles[svc[j].resizedPath]]
            /\ UNCHANGED tempFiles
       ELSE ImageCaught(j)
  /\ Callback(j)
  /\ UNCHANGED <<rest, puppeteerVars, jobStatus, tempDirs, now>>

\* fs.unlink(path).catch(() => {}): the file is gone, or the call failed
Unlinked(path, ok) ==
  IF ok THEN [p \in DOMAIN tempFiles \ {path} |-> tempFiles[p]]
        ELSE tempFiles

\* videoService.js:326
UnlinkImage(j, ok) ==
  /\ At(j, "unlinkImage")
  /\ tempFiles' = Unlinked(svc[j].imagePath, ok)
  /\ svc' = [svc EXCEPT ![j].pc = "unlinkResized"]
  /\ Callback(j)
  /\ UNCHANGED <<rest, puppeteerVars, jobStatus, tempDirs, now>>

\* videoService.js:327 and createFrame's return (videoService.js:122)
UnlinkResized(j, ok) ==
  /\ At(j, "unlinkResized")
  /\ tempFiles' = Unlinked(svc[j].resizedPath, ok)
  /\ svc' = [svc EXCEPT ![j].pc = "writeFile"]
  /\ Callback(j)
  /\ UNCHANGED <<rest, puppeteerVars, jobStatus, tempDirs, now>>

\* a millisecond passes
Tick ==
  /\ app = "canvas"
  /\ now < MaxClock
  /\ now' = now + 1
  /\ event' = [job |-> "none", req |-> NoRequest, res |-> NoResponse]
  /\ UNCHANGED <<rest, puppeteerVars, jobStatus, svc, tempDirs, tempFiles>>

-----------------------------------------------------------------------------
(* Frame file names (part_000:206, server.js:158, part_001:160,            *)
(* videoService.js:79, 98).  A string is the sequence of its characters.  *)

\* String(n) for an integer n >= 0
RECURSIVE String(_)
String(n) ==
  IF n < 10 THEN <<ToString(n)>> ELSE String(n \div 10) \o <<ToString(n % 10)>>

\* str.padStart(targetLength, '0'): zeros are put in front of a string
\* shorter than targetLength; a longer one is returned as it is
RECURSIVE padStart(_, _)
padStart(str, targetLength) ==
  IF Len(str) >= targetLength THEN str
  ELSE padStart(<<"0">> \o str, targetLength)

\* the targetLength of the program that is running
padLength == IF app \in {"bg", "plain"} THEN 5 ELSE 6

extension ==
  IF app \in {"bg", "plain"} THEN <<".", "j", "p", "g">>
                            ELSE <<".", "p", "n", "g">>

\* `frame_${String(i).padStart(5, '0')}.jpg`
frameFile(i) ==
  <<"f", "r", "a", "m", "e", "_">> \o padStart(String(i), padLength)
    \o extension

\* the UTF-16 code unit of a character of a frame file name
charCodeAt(c) ==
  IF c = "." THEN 46
  ELSE IF c = "_" THEN 95
  ELSE IF \E d \in 0..9 : ToString(d) = c
    THEN 48 + (CHOOSE d \in 0..9 : ToString(d) = c)
  ELSE CHOOSE n \in 97..122 :
         <<"a", "b", "c", "d", "e", "f", "g", "h", "i", "j", "k", "l", "m",
           "n", "o", "p", "q", "r", "s", "t", "u", "v", "w", "x", "y",
           "z">>[n - 96] = c

\* a < b for strings: the order of a directory listing sorted by name
RECURSIVE LexLess(_, _)
LexLess(a, b) ==
  IF b = <<>> THEN FALSE
  ELSE IF a = <<>> THEN TRUE
  ELSE IF a[1] # b[1] THEN charCodeAt(a[1]) < charCodeAt(b[1])
  ELSE LexLess(Tail(a), Tail(b))

\* the frame ordinals two frames of a job are drawn from: the first ones
\* and those around each change of the number of digits
Ordinals ==
  {0, 1, 2, 9, 10, 11, 99, 100, 101, 99998, 99999, 100000, 100001, 999999,
   1000000}

\* the capture loop names frames i and j
NameFrames ==
  /\ calc.op = "frameFile"
  /\ calc.files = <<>>
  /\ calc' = [calc EXCEPT !.files = <<frameFile(calc.i), frameFile(calc.j)>>]
  /\ UNCHANGED <<app, puppeteerVars, dialogueVars, event>>

-----------------------------------------------------------------------------
(* wrapText (part_001:570-592, videoService.js:333-355).  A string is the  *)
(* sequence of its characters.                                             *)

\* the texts: every string of at most MaxText characters over two letters
\* of different widths and the space
Texts == UNION {[1..n -> {"a", "b", " "}] : n \in 0..MaxText}

\* ctx.measureText(str).width: the advance widths of the characters add up
RECURSIVE measureText(_)
measureText(str) ==
  IF str = <<>> THEN 0
  ELSE (IF str[1] = "b" THEN 2 ELSE 1) + measureText(Tail(str))

\* str.split(' '): the pieces between the spaces, empty ones included
RECURSIVE split(_)
split(str) ==
  IF \A k \in DOMAIN str : str[k] # " " THEN <<str>>
  ELSE LET k == CHOOSE k \in DOMAIN str :
                  str[k] = " " /\ \A h \in 1..(k - 1) : str[h] # " "
       IN <<SubSeq(str, 1, k - 1)>> \o split(SubSeq(str, k + 1, Len(str)))

\* part_001:576
testLine(currentLine, word) ==
  currentLine \o (IF currentLine # <<>> THEN <<" ">> ELSE <<>>) \o word

\* the test of part_001:579 without `&& currentLine`
overflowsEmptyLine(currentLine, word, maxWidth) ==
  measureText(testLine(currentLine, word)) > maxWidth

\* the test of part_001:579
overflows(currentLine, word, maxWidth) ==
  measureText(testLine(currentLine, word)) > maxWidth /\ currentLine # <<>>

\* the loop of part_001:575-585 over the words left, and part_001:587-591
RECURSIVE wrapWords(_, _, _, _)
wrapWords(words, lines, currentLine, maxWidth) ==
  IF words = <<>>
    THEN IF currentLine # <<>> THEN Append(lines, currentLine) ELSE lines
  ELSE IF overflows(currentLine, Head(words), maxWidth)
    THEN wrapWords(Tail(words), Append(lines, currentLine), Head(words),
                   maxWidth)
  ELSE wrapWords(Tail(words), lines, testLine(currentLine, Head(words)),
                 maxWidth)

\* part_001:570-592
wrapText(text, maxWidth) == wrapWords(split(text), <<>>, <<>>, maxWidth)

\* a bubble's text is wrapped
WrapText ==
  /\ calc.op = "wrapText"
  /\ ~calc.returned
  /\ calc' = [calc EXCEPT !.returned = TRUE,
                          !.lines = wrapText(calc.text, calc.maxWidth)]
  /\ UNCHANGED <<app, puppeteerVars, dialogueVars, event>>

-----------------------------------------------------------------------------

\* no request was made yet
Empty ==
  /\ jobs = <<>>
  /\ run = <<>>
  /\ timers = {}
  /\ framesDirs = {}
  /\ videoFiles = {}
  /\ jobStatus = <<>>
  /\ svc = <<>>
  /\ tempDirs = {}
  /\ tempFiles = <<>>
  /\ now = 0
  /\ event = [job |-> "none", req |-> NoRequest, res |-> NoResponse]

\* the naming of two frames, for any two frame ordinals
NameInit ==
  /\ app \in {"bg", "plain", "dialogue", "canvas"}
  /\ Empty
  /\ calc \in {[op |-> "frameFile", i |-> i, j |-> j, files |-> <<>>] :
                 i \in Ordinals, j \in Ordinals}

NameNext == NameFrames

NameSpec == NameInit /\ [][NameNext]_vars

\* the wrapping of a text, for any text and any width
WrapInit ==
  /\ app \in {"dialogue", "canvas"}
  /\ Empty
  /\ calc \in {[op |-> "wrapText", text |-> text, maxWidth |-> maxWidth,
                 returned |-> FALSE, lines |-> <<>>] :
                 text \in Texts, maxWidth \in 1..MaxWidth}

WrapNext == WrapText

WrapSpec == WrapInit /\ [][WrapNext]_vars

\* Two jobs submitted to the canvas application, each with one dialogue
\* that has a text and an image, followed while neither has passed its
\* frame LastFrame.
ImageJobIds == DialogueJobIds \cup {"1b9d6bcd"}

ImageInit ==
  /\ app = "canvas"
  /\ Empty
  /\ calc = Idle

\* neither job has passed its frame LastFrame
Followed == \A j \in DOMAIN svc : svc[j].f < LastFrame

ImageNext ==
  \/ \E j \in ImageJobIds, imageUrl \in ImageUrls :
       Followed /\ PostDialogue(j, Dialogues(<<Pictured(1, imageUrl)>>))
  \/ \E j \in ImageJobIds, ok \in BOOLEAN : Followed /\ Mkdir(j, ok)
  \/ \E j \in ImageJobIds, ok \in BOOLEAN : Followed /\ CreateFrame(j, ok)
  \/ \E j \in ImageJobIds, ok \in BOOLEAN : Followed /\ WriteFile(j, ok)
  \/ \E j \in ImageJobIds, ok \in BOOLEAN : Followed /\ AxiosGet(j, ok)
  \/ \E j \in ImageJobIds, ok \in BOOLEAN : Followed /\ WriteImage(j, ok)
  \/ \E j \in ImageJobIds, ok \in BOOLEAN : Followed /\ Sharp(j, ok)
  \/ \E j \in ImageJobIds, ok \in BOOLEAN : Followed /\ LoadImage(j, ok)
  \/ \E j \in ImageJobIds, ok \in BOOLEAN : Followed /\ UnlinkImage(j, ok)
  \/ \E j \in ImageJobIds, ok \in BOOLEAN : Followed /\ UnlinkResized(j, ok)
  \/ Followed /\ Tick

ImageSpec == ImageInit /\ [][ImageNext]_vars

Init ==
  /\ app \in {"bg", "plain", "dialogue", "canvas"}
  /\ jobs = <<>>
  /\ run = <<>>
  /\ timers = {}
  /\ framesDirs = {}
  /\ videoFiles = {}
  /\ jobStatus = <<>>
  /\ svc = <<>>
  /\ tempDirs = {}
  /\ tempFiles = <<>>
  /\ now = 0
  /\ calc = Idle
  /\ event = [job |-> "none", req |-> NoRequest, res |-> NoResponse]

Next ==
  \/ \E j \in JobIds, d \in Durations, f \in FpsValues, u \in BackgroundUrls :
       PostGenerate(j, d, f, u)
  \/ \E id \in JobIds \cup {UnknownId} : GetProgress(id)
  \/ GetVideos
  \/ \E id \in JobIds \cup {UnknownId} : GetDownload(id)
  \/ \E j \in JobIds, ok \in BOOLEAN : Launch(j, ok)
  \/ \E j \in JobIds, ok \in BOOLEAN : NewPage(j, ok)
  \/ \E j \in JobIds, ok \in BOOLEAN : Goto(j, ok)
  \/ \E j \in JobIds, ok \in BOOLEAN : SetData(j, ok)
  \/ \E j \in JobIds, ok \in BOOLEAN : StartRender(j, ok)
  \/ \E j \in JobIds : Delay(j)
  \/ \E j \in JobIds : AwaitBg(j)
  \/ \E j \in JobIds, ok \in BOOLEAN : Ytdlp(j, ok)
  \/ \E j \in JobIds, ok \in BOOLEAN : Scale(j, ok)
  \/ \E j \in JobIds, ok \in BOOLEAN : SetTimelineTime(j, ok)
  \/ \E j \in JobIds, ok \in BOOLEAN : Screenshot(j, ok)
  \/ \E j \in JobIds, p \in Percents : EncoderProgress(j, p)
  \/ \E j \in JobIds : EncoderWrites(j)
  \/ \E j \in JobIds : EncoderEnd(j)
  \/ \E j \in JobIds : EncoderError(j)
  \/ \E j \in JobIds, ok \in BOOLEAN : BrowserClose(j, ok)
  \/ \E j \in JobIds : CleanupTimer(j)
  \/ \E j \in DialogueJobIds, d \in DialogueInputs : PostDialogue(j, d)
  \/ \E j \in DialogueJobIds, ok \in BOOLEAN : Mkdir(j, ok)
  \/ \E j \in DialogueJobIds, ok \in BOOLEAN : CreateFrame(j, ok)
  \/ \E j \in DialogueJobIds, ok \in BOOLEAN : WriteFile(j, ok)
  \/ \E j \in DialogueJobIds : ServiceEncoderEnd(j)
  \/ \E j \in DialogueJobIds : ServiceEncoderError(j)
  \/ \E j \in DialogueJobIds, ok \in BOOLEAN : CleanupStep(j, ok)

Spec == Init /\ [][Next]_vars

\* Every awaited external call eventually returns or throws, every timer
\* fires, and the encoder eventually emits 'end' or 'error'.
Completion(j) ==
  \/ \E ok \in BOOLEAN :
       \/ Launch(j, ok) \/ NewPage(j, ok) \/ Goto(j, ok) \/ SetData(j, ok)
       \/ StartRender(j, ok) \/ SetTimelineTime(j, ok) \/ Screenshot(j, ok)
       \/ BrowserClose(j, ok)
  \/ Delay(j) \/ AwaitBg(j) \/ CleanupTimer(j)

Resolver(j) == \E ok \in BOOLEAN : Ytdlp(j, ok) \/ Scale(j, ok)

EncoderExit(j) == EncoderEnd(j) \/ EncoderError(j)

ServiceCompletion(j) ==
  \/ \E ok \in BOOLEAN :
       Mkdir(j, ok) \/ CreateFrame(j, ok) \/ WriteFile(j, ok) \/ CleanupStep(j, ok)
  \/ ServiceEncoderEnd(j) \/ ServiceEncoderError(j)

FairSpec ==
  /\ Spec
  /\ \A j \in JobIds :
       WF_vars(Completion(j)) /\ WF_vars(Resolver(j)) /\ WF_vars(EncoderExit(j))
  /\ \A j \in DialogueJobIds : WF_vars(ServiceCompletion(j))

\* Two jobs submitted to the decimating server, each with one frame to
\* capture, and status queries at any moment.
ConcBackgroundUrls == {Str(<<>>), Str(<<"https:", "host", "clip">>)}

ConcInit == Init /\ app = "bg"

ConcNext ==
  \/ \E j \in ConcJobIds, u \in ConcBackgroundUrls : PostGenerate(j, 1, 2, u)
  \/ \E id \in ConcJobIds \cup {UnknownId} : GetProgress(id)
  \/ \E j \in ConcJobIds, ok \in BOOLEAN : Launch(j, ok)
  \/ \E j \in ConcJobIds, ok \in BOOLEAN : NewPage(j, ok)
  \/ \E j \in ConcJobIds, ok \in BOOLEAN : Goto(j, ok)
  \/ \E j \in ConcJobIds, ok \in BOOLEAN : SetData(j, ok)
  \/ \E j \in ConcJobIds, ok \in BOOLEAN : StartRender(j, ok)
  \/ \E j \in ConcJobIds : Delay(j)
  \/ \E j \in ConcJobIds : AwaitBg(j)
  \/ \E j \in ConcJobIds, ok \in BOOLEAN : Ytdlp(j, ok)
  \/ \E j \in ConcJobIds, ok \in BOOLEAN : Scale(j, ok)
  \/ \E j \in ConcJobIds, ok \in BOOLEAN : SetTimelineTime(j, ok)
  \/ \E j \in ConcJobIds, ok \in BOOLEAN : Screenshot(j, ok)
  \/ \E j \in ConcJobIds : EncoderProgress(j, 150)
  \/ \E j \in ConcJobIds : EncoderEnd(j)
  \/ \E j \in ConcJobIds : EncoderError(j)
  \/ \E j \in ConcJobIds, ok \in BOOLEAN : BrowserClose(j, ok)
  \/ \E j \in ConcJobIds : CleanupTimer(j)

ConcSpec == ConcInit /\ [][ConcNext]_vars

-----------------------------------------------------------------------------
(* Claims *)

Terminal == {"done", "error"}

LegalStatusStep(a, b) ==
  \/ a = b
  \/ a = "queued" /\ b \in {"rendering", "error"}
  \/ a = "rendering" /\ b \in {"done", "error"}

\* C1: a job's status moves only along queued -> rendering -> done and
\* queued/rendering -> error, and never leaves done or error, whatever the
\* external calls (browser close included) do.
C1_StatusGraph ==
  [][\A j \in DOMAIN jobs : LegalStatusStep(jobs[j].status, jobs'[j].status)]_vars

\* C2: between event-loop turns, a job whose status is done has a non-null
\* output file, and GET /api/progress/:jobId answers a non-null outputUrl.
C2_DoneHasOutput ==
  \A j \in DOMAIN jobs :
    jobs[j].status = "done" =>
      /\ jobs[j].outputFile # Null
      /\ Progress(j).code = 200
      /\ Progress(j).outputUrl # Null

C2_Witness ==
  \E j \in DOMAIN jobs :
    /\ jobs[j].status = "done"
    /\ run[j].pc = "closing"
    /\ Progress(j).outputUrl = <<"videos", j \o ".mp4">>

\* C3: outputFile is non-null only while the status is done; a job in status
\* error has a null output reference.
C3_OutputOnlyWhenDone ==
  \A j \in DOMAIN jobs :
    jobs[j].outputFile # Null => jobs[j].status = "done"

\* C4: while a job is not errored, no write to job.progress lowers it,
\* whatever percent values the encoder reports and in whatever order.
C4_ProgressMonotone ==
  [][\A j \in DOMAIN jobs :
       jobs[j].status # "error" => jobs'[j].progress >= jobs[j].progress]_vars

\* C5: progress is 100 only after the encoder's 'end': while the job is
\* launching, capturing, encoding, or after the encoder failed, progress is
\* strictly below 100.
C5_HundredOnlyAfterEnd ==
  \A j \in DOMAIN jobs :
    run[j].encoder # "ended" => jobs[j].progress < 100

C5_Witness ==
  \E j \in DOMAIN jobs :
    /\ run[j].encoder = "failed"
    /\ run[j].pc = "finished"
    /\ jobs[j].progress = 95

\* C6: whatever the outcome of an accepted job, the browser is closed if it
\* was launched and the frame directory is deleted or its deletion is
\* scheduled (puppeteer servers); the temp directory is deleted (dialogue
\* application).
C6_CleanupOnEveryOutcome ==
  /\ \A j \in DOMAIN run :
       run[j].pc = "finished" =>
         /\ run[j].browser # "open"
         /\ j \in timers \/ j \notin framesDirs
  /\ \A j \in DOMAIN svc :
       svc[j].pc \in {"resolved", "rejected"} => j \notin tempDirs

CaptureErrors == {"setTimelineTime", "screenshot"}

\* C7: when a frame capture or the encoder fails, the job ends in status
\* error with the failure's detail in job.message; after a failed capture no
\* further frame is captured and the encoder is never started.
C7_CaptureOrEncoderFailureIsFatal ==
  \A j \in DOMAIN run :
    run[j].thrown \in CaptureErrors \cup {"ffmpeg"} =>
      /\ run[j].pc \in {"closing", "finished"}
      /\ jobs[j].status # "done"
      /\ run[j].thrown \in CaptureErrors => run[j].encoder = "idle"
      /\ run[j].pc = "finished" =>
           /\ jobs[j].status = "error"
           /\ jobs[j].message = StackMsg(run[j].thrown)

ResolverErrors == {"TypeError", "ytdlp", "scale"}

\* C8: a failed background resolution (the download or the transcode
\* throwing, or a backgroundUrl that is no string) is absorbed: the promise
\* resolves to null, bgVideo stays null, the encoder gets no background
\* input, no job error carries the resolver's failure, and the job is done
\* when every other call succeeds.
C8_BackgroundFailureNotFatal ==
  \A j \in DOMAIN run :
    /\ run[j].bg.state # "rejected"
    /\ run[j].thrown \notin ResolverErrors
    /\ jobs[j].message.err \notin ResolverErrors
    /\ run[j].bg.err \in ResolverErrors =>
         /\ run[j].bg = [state |-> "resolved", value |-> Null, err |-> run[j].bg.err]
         /\ run[j].bgVideo = Null
         /\ run[j].encBg = Null
         /\ (run[j].pc = "finished" /\ run[j].thrown = "none"
                /\ run[j].browser = "closed") => jobs[j].status = "done"

C8_Witness ==
  \E j \in DOMAIN run :
    /\ run[j].bg.err = "ytdlp"
    /\ run[j].encoder = "ended"
    /\ run[j].encBg = Null
    /\ run[j].pc = "finished"
    /\ jobs[j].status = "done"

BeforePageLoad == {"launch", "newPage", "goto"}
AfterPageLoad ==
  {"setData", "startRender", "delay", "awaitBg", "setTimelineTime",
   "screenshot", "encoding"}

C10_EventuallyTerminal ==
  /\ \A j \in JobIds :
       (j \in DOMAIN jobs) ~> (j \in DOMAIN jobs /\ jobs[j].status \in Terminal)
  /\ \A j \in DialogueJobIds :
       (j \in DOMAIN jobStatus) ~>
         (j \in DOMAIN jobStatus /\ jobStatus[j].status \in {"completed", "failed"})

C10_Witness ==
  \E j \in DOMAIN jobs :
    /\ jobs[j].status = "error"
    /\ run[j].pc = "finished"
    /\ run[j].thrown = "none"
    /\ run[j].browser = "none"

\* C11: for durationSec > 0 and fps > 0 the capture loop takes exactly
\* floor(durationSec * fps / frameStep) samples (frameStep is 2 in the
\* decimating server, 1 in the other), at the times i * frameStep / fps: the
\* first is 0, they increase strictly, and each is below durationSec.
C11_SampleTimes ==
  \A j \in DOMAIN run :
    LET r == run[j]
        step == IF app = "bg" THEN 2 ELSE 1
        count == (r.durationSec * r.fps) \div step
    IN (r.durationSec > 0 /\ r.fps > 0) =>
         /\ \A k \in 1..Len(r.samples) :
              /\ r.samples[k] = [num |-> (k - 1) * step, den |-> r.fps]
              /\ r.samples[k].num < r.durationSec * r.samples[k].den
              /\ k > 1 => r.samples[k - 1].num * r.samples[k].den
                            < r.samples[k].num * r.samples[k - 1].den
         /\ Len(r.samples) <= count
         /\ r.encoder # "idle" => Len(r.samples) = count

C11_Witness ==
  \E j \in DOMAIN run :
    /\ app = "bg"
    /\ run[j].durationSec = 2 /\ run[j].fps = 3
    /\ run[j].encoder = "running"
    /\ run[j].samples =
         <<[num |-> 0, den |-> 3], [num |-> 2, den |-> 3], [num |-> 4, den |-> 3]>>

\* C12: a submission with durationSec <= 0 or fps <= 0 is rejected before
\* scheduling: it gets no job record and no pipeline activation.
C12_NonPositiveRejected ==
  \A j \in DOMAIN jobs \cup DOMAIN run :
    run[j].durationSec > 0 /\ run[j].fps > 0

\* C13: a POST to the dialogue generate endpoint whose body has no dialogues
\* field, or one that is not an array, is answered 400 in the same turn,
\* leaves the job registry as it was and starts no VideoService.generateVideo.
C13_InvalidBodyRejected ==
  [][(/\ event'.req.route = "POST /api/videos/generate"
      /\ event'.req.arg.kind # "array")
       => /\ event'.res.code = 400
          /\ event'.job = "none"
          /\ UNCHANGED <<jobStatus, svc, tempDirs>>]_vars

C13_Witness ==
  /\ event.req.route = "POST /api/videos/generate"
  /\ event.req.arg = BadDialogues
  /\ event.res.code = 400
  /\ \E j \in DOMAIN jobStatus : jobStatus[j] = Processing

\* C14: with an empty dialogue list no step of the pipeline throws and the
\* job does not end failed: no job with an empty list fails on an exception
\* of the program's own.
C14_EmptyListCompletes ==
  \A j \in DOMAIN svc :
    (svc[j].dialogues = <<>> /\ jobStatus[j].status = "failed")
      => jobStatus[j].error # "TypeError"

\* the dialogue a visible message was made from
Original(m) == [k \in DOMAIN m \ {"animationProgress", "index"} |-> m[k]]

\* C15: in every frame the visible messages are a prefix of the input
\* dialogues, in input order, and a message that is visible in one frame is
\* visible in every later frame of the job.
C15_VisiblePrefix ==
  /\ [](\A j \in DOMAIN svc :
          LET s == svc[j] IN
          /\ \E m \in 0..Len(s.dialogues) : VisibleSet(s) = 0..(m - 1)
          /\ Len(s.visibleMessages) <= Len(s.dialogues)
          /\ \A k \in DOMAIN s.visibleMessages :
               /\ s.visibleMessages[k].index = k - 1
               /\ Original(s.visibleMessages[k]) = s.dialogues[k]
          /\ Len(s.allDialogues) <= Len(s.dialogues)
          /\ s.allDialogues = SubSeq(s.dialogues, 1, Len(s.allDialogues)))
  /\ [][\A j \in DOMAIN svc :
          VisibleSet(svc[j]) \subseteq VisibleSet(svc'[j])]_vars

C15_Witness ==
  \E j \in DOMAIN svc :
    /\ app = "dialogue"
    /\ Len(svc[j].dialogues) = 2
    /\ VisibleSet(svc[j]) = {0, 1}
    /\ svc[j].pc = "writeFile"

\* C16: the animationProgress of a visible message starts from 0, grows by
\* 0.1 in every frame from the one that shows the message first, is clamped
\* at 1, lies in [0,1] and never decreases; a visible message keeps its place.
C16_AnimationProgress ==
  [][\A j \in DOMAIN svc :
       LET old == svc[j].visibleMessages
           new == svc'[j].visibleMessages
       IN /\ \A k \in DOMAIN new :
               /\ ~Less(new[k].animationProgress, Zero)
               /\ ~Less(One, new[k].animationProgress)
          /\ \A k \in DOMAIN old :
               /\ k \in DOMAIN new
               /\ new[k].index = old[k].index
               /\ ~Less(new[k].animationProgress, old[k].animationProgress)
          /\ (svc[j].pc # "createFrame" /\ svc'[j].pc = "createFrame") =>
               \A k \in DOMAIN new :
                 new[k].animationProgress =
                   MathMin(One, AddTenth(IF k \in DOMAIN old
                                           THEN old[k].animationProgress
                                           ELSE Zero))]_vars

C16_Witness ==
  \E j \in DOMAIN svc :
    /\ Len(svc[j].visibleMessages) = 2
    /\ svc[j].visibleMessages[1].animationProgress = One
    /\ svc[j].visibleMessages[2].animationProgress = Float(3, 1)

\* C17: for a list of N >= 1 dialogues every message has an onset frame by
\* the time the frames are all generated, the onsets do not decrease along
\* the input order, and no onset lies after the start of the final frames
\* (the frame count less the final hold).
C17_OnsetsBeforeHold ==
  \A j \in DOMAIN svc :
    LET s == svc[j] IN
    Len(s.dialogues) >= 1 =>
      /\ \A i \in DOMAIN s.onsets :
           /\ 0 <= s.onsets[i]
           /\ s.onsets[i] <= s.totalFrames - finalFrames
      /\ \A i, k \in DOMAIN s.onsets : i <= k => s.onsets[i] <= s.onsets[k]
      /\ s.pc \in {"ffmpeg", "readdir", "unlink", "rmdir", "resolved"} =>
           DOMAIN s.onsets = 0..(Len(s.dialogues) - 1)

C17_Witness ==
  \E j \in DOMAIN svc :
    /\ app = "dialogue"
    /\ svc[j].pc = "ffmpeg"
    /\ Len(svc[j].dialogues) = 2
    /\ svc[j].onsets[1] = svc[j].totalFrames - finalFrames

\* C18: of N >= 1 dialogues, message k (from 0) becomes visible at about
\* k/N of the frames that precede the final hold: the first message within
\* a few frames of frame 0, the second of two at about the midpoint.
C18_EvenSpacing ==
  \A j \in DOMAIN svc :
    LET s == svc[j]
        N == Len(s.dialogues)
        due(k) == (k * (s.totalFrames - finalFrames)) \div N
    IN \A k \in DOMAIN s.onsets :
         /\ s.onsets[k] - due(k) <= framesPerMessage \div 4
         /\ due(k) - s.onsets[k] <= framesPerMessage \div 4

\* C19: GET /api/videos lists, and GET /api/download/:id serves, an output
\* file only of a job whose status is done; the file of a job that is still
\* encoding or that ended in error is neither listed nor served.
C19_OutputExposedOnlyWhenDone ==
  \A id \in JobIds \cup {UnknownId} :
    (Download(id).code = 200 \/ id \in {v.id : v \in Videos})
      => id \in DOMAIN jobs /\ jobs[id].status = "done"

\* C20: the record of a job is written only in turns of that job's own
\* pipeline; a status query writes no record, and answers 404 for an
\* unknown id without making a record; no record is ever removed.
C20_OwnRecordOnly ==
  [][/\ DOMAIN jobs \subseteq DOMAIN jobs'
     /\ \A j \in DOMAIN jobs' :
          (j \notin DOMAIN jobs \/ jobs'[j] # jobs[j]) => event'.job = j
     /\ event'.req.route = "GET /api/progress/:jobId" =>
          /\ jobs' = jobs
          /\ event'.job = "none"
          /\ event'.req.arg \notin DOMAIN jobs => event'.res.code = 404
          /\ event'.req.arg \in DOMAIN jobs =>
               /\ event'.res.code = 200
               /\ event'.res.status = jobs[event'.req.arg].status]_vars

C20_Witness ==
  /\ DOMAIN jobs = ConcJobIds
  /\ \E a, b \in ConcJobIds :
       /\ jobs[a].status = "done"
       /\ jobs[b].status = "error"
       /\ run[a].pc = "closing"
       /\ event.job = b

\* C22: a job leaves `queued` in the turn that accepts it: the record is
\* inserted and set to rendering in the POST handler's own turn, at which
\* point no browser, background fetch or encoder has been started; no record
\* and no status answer ever shows queued.
C22_NeverObservedQueued ==
  /\ \A j \in DOMAIN jobs : jobs[j].status # "queued"
  /\ event.req.route = "GET /api/progress/:jobId" /\ event.res.code = 200
       => event.res.status # "queued"
  /\ event.req.route = "POST /api/generate" =>
       /\ event.job \in DOMAIN jobs
       /\ jobs[event.job].status = "rendering"
       /\ run[event.job].pc = "launch"
       /\ run[event.job].browser = "none"
       /\ run[event.job].bg = NotStarted
       /\ run[event.job].encoder = "idle"

C22_Witness ==
  /\ event.req.route = "POST /api/generate"
  /\ event.job \in DOMAIN jobs
  /\ jobs[event.job].status = "rendering"
  /\ run[event.job].browser = "none"

\* C23: frames are captured one after the other in increasing time order:
\* the timeline is set for frame i only when frames 0..i-1 are written, a
\* turn writes at most one frame (the one whose screenshot was pending, with
\* the next sample time), and the encoder is started only when the last
\* frame is written; the canvas service starts its encoder only after its
\* last frame is written, too.
C23_SequentialCapture ==
  /\ [](/\ \A j \in DOMAIN run :
             /\ run[j].pc \in {"setTimelineTime", "screenshot"} =>
                  /\ Len(run[j].samples) = run[j].i
                  /\ run[j].i < run[j].n
                  /\ run[j].encoder = "idle"
             /\ run[j].encoder # "idle" => Len(run[j].samples) = run[j].n
        /\ \A j \in DOMAIN svc :
             /\ svc[j].pc \in {"createFrame", "writeFile"} =>
                  svc[j].f < svc[j].totalFrames
             /\ svc[j].pc = "ffmpeg" => svc[j].f = svc[j].totalFrames)
  /\ [][/\ \A j \in DOMAIN run :
             Len(run'[j].samples) # Len(run[j].samples) =>
               /\ run[j].pc = "screenshot"
               /\ event'.job = j
               /\ run'[j].samples =
                    Append(run[j].samples,
                           [num |-> Len(run[j].samples)
                                      * (IF app = "bg" THEN 2 ELSE 1),
                            den |-> run[j].fps])
        /\ \A j \in DOMAIN svc :
             svc'[j].f # svc[j].f =>
               /\ svc[j].pc = "writeFile"
               /\ svc'[j].f = svc[j].f + 1]_vars

C23_Witness ==
  \E j \in DOMAIN run :
    /\ run[j].encoder = "running"
    /\ run[j].n = 3
    /\ Len(run[j].samples) = 3

\* C25: for a background reference '/backgrounds/<file>' the encoder's
\* background input is the path of the asset stored under that name in the
\* backgrounds directory.
C25_LocalAssetUnchanged ==
  \A j \in DOMAIN run :
    LET u == run[j].backgroundUrl
    IN (/\ app = "bg"
        /\ u.isString /\ Len(u.segs) = 2 /\ u.segs[1] = "backgrounds"
        /\ run[j].encoder # "idle")
         => run[j].encBg = StoredAsset(u.segs[2])

\* C26: the encoder's input frame rate times frameStep is the requested
\* fps, and the frames played at that rate last as long as the sampled span.
C26_InputRateExact ==
  \A j \in DOMAIN run :
    run[j].encoder # "idle" =>
      /\ run[j].framerate * (IF app = "bg" THEN 2 ELSE 1) = run[j].fps
      /\ \A k \in 1..Len(run[j].samples) :
           (k - 1) * run[j].samples[k].den
             = run[j].samples[k].num * run[j].framerate

\* C27: while frames are captured, the progress after k of N frames is
\* round(k / N * 80), a value in 0..80 (80 for k = N); the turn that starts
\* the encoder sets 85; every encoder progress event leaves a value in
\* 85..95; the progress of a job is always in 0..100.
C27_ProgressMapping ==
  /\ [](\A j \in DOMAIN run :
          /\ jobs[j].progress \in 0..100
          /\ (run[j].pc \in {"setTimelineTime", "screenshot"} /\ run[j].i > 0)
               => /\ jobs[j].progress = (2 * run[j].i * 80 + run[j].n)
                                          \div (2 * run[j].n)
                  /\ jobs[j].progress \in 0..80
          /\ (run[j].n > 0 /\ run[j].i = run[j].n)
               => (2 * run[j].i * 80 + run[j].n) \div (2 * run[j].n) = 80
          /\ run[j].pc = "encoding" => jobs[j].progress \in 85..95)
  /\ [][\A j \in DOMAIN run :
          /\ (run[j].encoder = "idle" /\ run'[j].encoder = "running")
               => jobs'[j].progress = 85
          /\ (run[j].pc = "encoding" /\ run'[j].pc = "encoding")
               => jobs'[j].progress \in 85..95]_vars

C27_Witness ==
  \E j \in DOMAIN run :
    /\ run[j].pc = "setTimelineTime"
    /\ run[j].i = 2 /\ run[j].n = 3
    /\ jobs[j].progress = 53

\* C29: a job whose dialogues include one with no text body (an image and a
\* caption only) does not fail because of it: no such job ends failed with
\* a TypeError.
C29_TextLessMessageDrawn ==
  \A j \in DOMAIN svc :
    (\E k \in DOMAIN svc[j].dialogues : "message" \notin DOMAIN svc[j].dialogues[k])
      => ~(jobStatus[j].status = "failed" /\ jobStatus[j].error = "TypeError")

\* the number a frame file name carries between "frame_" and the extension
RECURSIVE Ordinal(_)
Ordinal(digits) ==
  IF digits = <<>> THEN 0
  ELSE Ordinal(SubSeq(digits, 1, Len(digits) - 1)) * 10
         + charCodeAt(digits[Len(digits)]) - 48

\* C24: the file of frame i carries the ordinal i, zero-padded to one fixed
\* width, so that for any two frames the order of their names as strings is
\* the order of their ordinals.
C24_LexicalIsNumeric ==
  (calc.op = "frameFile" /\ calc.files # <<>>) =>
    LET width == IF app \in {"bg", "plain"} THEN 5 ELSE 6
        digits(f) == SubSeq(f, 7, Len(f) - 4)
    IN /\ Ordinal(digits(calc.files[1])) = calc.i
       /\ Ordinal(digits(calc.files[2])) = calc.j
       /\ Len(digits(calc.files[1])) = width
       /\ Len(digits(calc.files[2])) = width
       /\ LexLess(calc.files[1], calc.files[2]) <=> calc.i < calc.j

\* the non-empty words of a string
Words(str) == SelectSeq(split(str), LAMBDA word : word # <<>>)

\* the non-empty words of the lines, line after line
RECURSIVE WordsOf(_)
WordsOf(lines) ==
  IF lines = <<>> THEN <<>> ELSE Words(Head(lines)) \o WordsOf(Tail(lines))

\* lines.join(' ')
RECURSIVE Joined(_)
Joined(lines) ==
  IF lines = <<>> THEN <<>>
  ELSE IF Len(lines) = 1 THEN lines[1]
  ELSE lines[1] \o <<" ">> \o Joined(Tail(lines))

\* C28: wrapText keeps the words of the text, whole and in their order; a
\* line of two or more words is at most maxWidth wide; a line ends exactly
\* where the next word would not fit on it; a word wider than maxWidth is a
\* line by itself; and when the words of the text are non-empty and
\* separated by single spaces, the lines joined by a space are the text.
C28_GreedyWrap ==
  (calc.op = "wrapText" /\ calc.returned) =>
    LET lines == calc.lines
        width == calc.maxWidth
    IN /\ WordsOf(lines) = Words(calc.text)
       /\ \A k \in DOMAIN lines :
            /\ lines[k] # <<>>
            /\ Len(Words(lines[k])) >= 2 => measureText(lines[k]) <= width
            /\ \A w \in DOMAIN Words(lines[k]) :
                 measureText(Words(lines[k])[w]) > width =>
                   lines[k] = Words(lines[k])[w]
            /\ k < Len(lines) =>
                 measureText(lines[k] \o <<" ">> \o Words(lines[k + 1])[1])
                   > width
       /\ (\A w \in DOMAIN split(calc.text) : split(calc.text)[w] # <<>>)
            => Joined(lines) = calc.text

C28_Witness ==
  /\ calc.op = "wrapText" /\ calc.returned
  /\ calc.text = <<"a", " ", "a", " ", "b">>
  /\ calc.maxWidth = 3
  /\ calc.lines = <<<<"a", " ", "a">>, <<"b">>>>

\* C21: createFrame is a function of its arguments: two calls with the same
\* dialogue, dialogue list, progress and frame number return the same image,
\* whatever the network answered and whatever files other frames left.
C21_FrameDeterminedByState ==
  \A a, b \in DOMAIN svc :
    (/\ app = "canvas"
     /\ svc[a].pc = "writeFile" /\ svc[b].pc = "writeFile"
     /\ svc[a].currentDialogue = svc[b].currentDialogue
     /\ svc[a].allDialogues = svc[b].allDialogues
     /\ svc[a].progress = svc[b].progress
     /\ svc[a].f = svc[b].f)
      => svc[a].image = svc[b].image

\* the temporary image files a job's drawDialogueImage is working on
TempFilesOf(j) ==
  IF svc[j].pc \in {"axios", "writeImage"} THEN {svc[j].imagePath}
  ELSE IF svc[j].pc \in {"sharp", "loadImage", "unlinkImage", "unlinkResized"}
    THEN {svc[j].imagePath, svc[j].resizedPath}
  ELSE {}

\* C30: two jobs running at once never work on the same transient file: the
\* temporary image files of one are not those of the other, and the image
\* drawn into a job's frame is the one of that job's dialogue.
C30_NoSharedTransientFiles ==
  \A a, b \in DOMAIN svc :
    /\ a # b => TempFilesOf(a) \cap TempFilesOf(b) = {}
    /\ (svc[a].pc = "writeFile" /\ svc[a].image # Null)
         => svc[a].image = svc[a].currentDialogue.image

====
